---- MODULE Spec2Model ----
(***************************************************************************)
(* PentaVision session client (api.py) and refresh coordinator            *)
(* (coordinator.py) as a state machine.  One step of a task runs the code  *)
(* between two await points: asyncio is cooperative, so the code between   *)
(* two awaits is atomic, and tasks interleave only at the HTTP exchanges.  *)
(***************************************************************************)
EXTENDS Integers, Sequences, FiniteSets, TLC

\* Saturation point of the per-cycle call counters (the code has no counter).
MaxCount == 3

\* Callers of the one PentaVisionAPI / PentaVisionCoordinator pair: the
\* scheduled poll tick and a manually triggered call.
Tasks == {"tick", "manual"}

\* Python's None, as a field value.
None == "None"

\* const.py
API_HANDSHAKE_INIT == "/api/auth/handshake/init"
API_HANDSHAKE_COMPLETE == "/api/auth/handshake/complete"
API_SESSION_REVOKE == "/api/auth/session/revoke"
API_CAMERAS == "/api/cameras"
API_STATUS == "/api/status"
API_MJPEG_STREAM(camera_id) == "/stream/mjpeg/" \o camera_id
API_HLS_PLAYLIST(camera_id) == "/stream/hls/" \o camera_id \o "/index.m3u8"

\* Camera ids the entities ask stream URLs for.
CameraIds == {"cam1", "cam2"}

\* entry.entry_id of the one config entry.
entry_id == "entry1"

\* PentaVisionAPI.api_key: set at construction, never assigned again.
api_key == "K"

\* Session tokens a server may issue.
Tokens == {"T1", "T2"}

\* hashlib.sha256(k.encode()).hexdigest(): a one-way digest, kept symbolic.
SHA256Hex(k) == "sha256(" \o k \o ")"

\* hmac.new(key.encode(), msg.encode(), hashlib.sha256).hexdigest()
HmacSha256Hex(key, msg) == "hmac-sha256(" \o key \o "," \o msg \o ")"

\* Python truthiness of a str | None value: `if v` / `not v`.
Truthy(v) == v # None /\ v # ""

(***************************************************************************)
(* JSON bodies: `keys` is the set of keys the dict holds; a field outside  *)
(* `keys` keeps its default and is never read.                             *)
(***************************************************************************)
EmptyBody ==
    [keys |-> {}, error |-> None, code |-> None, challenge |-> None,
     nonce |-> None, session_token |-> None, cameras |-> <<>>, uptime |-> None]

\* dict.get(k): the value, or None when the key is absent.
Get(b, k) == IF k \in b.keys THEN b[k] ELSE None

\* dict.get(k, d)
GetOr(b, k, d) == IF k \in b.keys THEN b[k] ELSE d

\* What one HTTP exchange can end in: an HTTP response with a decoded body,
\* an aiohttp.ClientError, an asyncio.TimeoutError (the 30 s total timeout),
\* or a body that cannot be decoded (a ValueError from response.json()).
Http(status, body) == [kind |-> "http", status |-> status, body |-> body]
Faults ==
    {[kind |-> k, status |-> 0, body |-> EmptyBody] :
        k \in {"client_error", "timeout", "bad_json"}}
NoResp == [kind |-> None, status |-> 0, body |-> EmptyBody]

ErrorStatuses == {400, 503}
ErrorBodies ==
    { EmptyBody,
      [EmptyBody EXCEPT !.keys = {"error"}, !.error = "boom"],
      [EmptyBody EXCEPT !.keys = {"error", "code"}, !.error = "forbidden",
                        !.code = "FORBIDDEN"],
      [EmptyBody EXCEPT !.keys = {"error", "code"}, !.error = "session expired",
                        !.code = "SESSION_INVALID"] }
ErrorResponses == {Http(s, b) : s \in ErrorStatuses, b \in ErrorBodies} \cup Faults

StatusBodies == {[EmptyBody EXCEPT !.keys = {"uptime"}, !.uptime = u] : u \in {"u1", "u2"}}
CameraLists == {<<>>, <<"cam1">>, <<"cam1", "cam2">>}
CamerasBodies ==
    {EmptyBody} \cup
    {[EmptyBody EXCEPT !.keys = {"cameras"}, !.cameras = l] : l \in CameraLists}
InitBodies ==
    {[EmptyBody EXCEPT !.keys = ks, !.error = IF "error" \in ks THEN "denied" ELSE None,
                       !.challenge = IF "challenge" \in ks THEN ch ELSE None,
                       !.nonce = IF "nonce" \in ks THEN no ELSE None] :
        ks \in SUBSET {"error", "challenge", "nonce"},
        ch \in {"", "c1", "c2"}, no \in {"", "n1", "n2"}}
CompleteBodies ==
    {[EmptyBody EXCEPT !.keys = ks, !.error = IF "error" \in ks THEN "denied" ELSE None,
                       !.session_token = IF "session_token" \in ks THEN tk ELSE None] :
        ks \in SUBSET {"error", "session_token"}, tk \in {""} \cup Tokens}

\* The responses a server (or the network) may give on each endpoint.
ResponsesFor(endpoint) ==
    ErrorResponses \cup
    {Http(200, b) : b \in
        CASE endpoint = API_STATUS -> StatusBodies
          [] endpoint = API_CAMERAS -> CamerasBodies
          [] endpoint = API_HANDSHAKE_INIT -> InitBodies
          [] endpoint = API_HANDSHAKE_COMPLETE -> CompleteBodies
          [] OTHER -> {EmptyBody}}

(***************************************************************************)
(* Exceptions.                                                             *)
(***************************************************************************)
NoErr == [type |-> None, msg |-> None, code |-> None]
\* PentaVisionAPIError(message, code=None)
PentaVisionAPIError(message, code) ==
    [type |-> "PentaVisionAPIError", msg |-> message, code |-> code]
Fault(type, message) == [type |-> type, msg |-> message, code |-> None]

\* Faulty variant of RequestOutcome: `response.status > 400`.
RequestOutcomeAbove400(r) ==
    IF r.kind = "client_error"
    THEN [ok |-> FALSE, data |-> EmptyBody,
          err |-> PentaVisionAPIError("Connection error: ClientError", None)]
    ELSE IF r.kind = "timeout"
    THEN [ok |-> FALSE, data |-> EmptyBody, err |-> Fault("TimeoutError", "")]
    ELSE IF r.kind = "bad_json"
    THEN [ok |-> FALSE, data |-> EmptyBody, err |-> Fault("ValueError", "Expecting value")]
    ELSE IF r.status > 400
    THEN [ok |-> FALSE, data |-> EmptyBody,
          err |-> PentaVisionAPIError(GetOr(r.body, "error", "Unknown error"),
                                      Get(r.body, "code"))]
    ELSE [ok |-> TRUE, data |-> r.body, err |-> NoErr]

\* _request, from the response on: what it returns or raises.
RequestOutcome(r) ==
    IF r.kind = "client_error"
    THEN [ok |-> FALSE, data |-> EmptyBody,
          err |-> PentaVisionAPIError("Connection error: ClientError", None)]
    ELSE IF r.kind = "timeout"
    THEN [ok |-> FALSE, data |-> EmptyBody, err |-> Fault("TimeoutError", "")]
    ELSE IF r.kind = "bad_json"
    THEN [ok |-> FALSE, data |-> EmptyBody, err |-> Fault("ValueError", "Expecting value")]
    ELSE IF r.status >= 400
    THEN [ok |-> FALSE, data |-> EmptyBody,
          err |-> PentaVisionAPIError(GetOr(r.body, "error", "Unknown error"),
                                      Get(r.body, "code"))]
    ELSE [ok |-> TRUE, data |-> r.body, err |-> NoErr]

(***************************************************************************)
(* Requests.                                                               *)
(***************************************************************************)
NoJson == [api_key_hash |-> None, nonce |-> None, response |-> None]
NoHeaders == [X_Session_Token |-> None, X_API_Key |-> None]
NoReq == [method |-> None, endpoint |-> None, json |-> NoJson, headers |-> NoHeaders]

\* Faulty variant of RequestHeaders: the session token is never attached.
RequestHeadersNoToken(headers, auth, session_token) == headers

\* Faulty variant of RequestHeaders: tests `is not None` where the code
\* tests truthiness.
RequestHeadersNotNone(headers, auth, session_token) ==
    IF auth /\ session_token # None
    THEN [headers EXCEPT !.X_Session_Token = session_token]
    ELSE headers

\* Faulty variant of RequestHeaders: the token is attached whatever `auth`.
RequestHeadersIgnoresAuth(headers, auth, session_token) ==
    IF Truthy(session_token)
    THEN [headers EXCEPT !.X_Session_Token = session_token]
    ELSE headers

\* _request, lines 143-146: the headers of the request.
RequestHeaders(headers, auth, session_token) ==
    IF auth /\ Truthy(session_token)
    THEN [headers EXCEPT !.X_Session_Token = session_token]
    ELSE headers

(***************************************************************************)
(* State.                                                                  *)
(***************************************************************************)
VARIABLES
    token,      \* PentaVisionAPI._session_token
    cameras,    \* PentaVisionCoordinator.cameras
    pc,         \* per task: the await it is suspended at, or idle / done
    op,         \* per task: the call the caller made
    req,        \* per task: the last request it sent
    resp,       \* per task: the last response it received
    status,     \* per task: _async_update_data's local `status`
    err,        \* per task: _async_update_data's caught `err`
    result,     \* per task: what the call returned or raised
    passes,     \* per task: fetch passes of the cycle (saturating)
    authCalls,  \* per task: authenticate() calls of the cycle (saturating)
    authRet,    \* per task: what the last authenticate() returned
    issued,     \* server side: the session tokens it has returned so far
    registry,   \* hass.data[DOMAIN]: the entry ids holding an api/coordinator pair
    coordinator,\* per task: async_setup_entry's local `coordinator` exists
    unload_ok   \* per task: async_unload_entry's local `unload_ok`

vars == <<token, cameras, pc, op, req, resp, status, err, result, passes,
          authCalls, authRet, issued, registry, coordinator, unload_ok>>

\* PentaVisionAPI.authenticated: `self._session_token is not None`.
authenticated == token # None

\* A URL: base_url + endpoint + "?" + param + "=" + value.
NoUrl == [endpoint |-> None, param |-> None, value |-> None]

NoResult ==
    [kind |-> None, value |-> FALSE, status |-> EmptyBody, cameras |-> <<>>,
     camera_count |-> 0, server_online |-> FALSE, prefix |-> None, msg |-> None,
     type |-> None, url |-> NoUrl]

\* A task's frame: its locals and the object fields it reads and writes.
Cur(t) ==
    [token |-> token, cameras |-> cameras, pc |-> pc[t], op |-> op[t],
     req |-> req[t], resp |-> resp[t], status |-> status[t], err |-> err[t],
     result |-> result[t], passes |-> passes[t], authCalls |-> authCalls[t],
     authRet |-> authRet[t], issued |-> issued, registry |-> registry,
     coordinator |-> coordinator[t], unload_ok |-> unload_ok[t]]

Apply(t, n) ==
    /\ token' = n.token
    /\ cameras' = n.cameras
    /\ pc' = [pc EXCEPT ![t] = n.pc]
    /\ op' = [op EXCEPT ![t] = n.op]
    /\ req' = [req EXCEPT ![t] = n.req]
    /\ resp' = [resp EXCEPT ![t] = n.resp]
    /\ status' = [status EXCEPT ![t] = n.status]
    /\ err' = [err EXCEPT ![t] = n.err]
    /\ result' = [result EXCEPT ![t] = n.result]
    /\ passes' = [passes EXCEPT ![t] = n.passes]
    /\ authCalls' = [authCalls EXCEPT ![t] = n.authCalls]
    /\ authRet' = [authRet EXCEPT ![t] = n.authRet]
    /\ issued' = n.issued
    /\ registry' = n.registry
    /\ coordinator' = [coordinator EXCEPT ![t] = n.coordinator]
    /\ unload_ok' = [unload_ok EXCEPT ![t] = n.unload_ok]

Bump(n) == IF n < MaxCount THEN n + 1 ELSE n

Init ==
    /\ token = None
    /\ cameras = <<>>
    /\ pc = [t \in Tasks |-> "idle"]
    /\ op = [t \in Tasks |-> None]
    /\ req = [t \in Tasks |-> NoReq]
    /\ resp = [t \in Tasks |-> NoResp]
    /\ status = [t \in Tasks |-> EmptyBody]
    /\ err = [t \in Tasks |-> NoErr]
    /\ result = [t \in Tasks |-> NoResult]
    /\ passes = [t \in Tasks |-> 0]
    /\ authCalls = [t \in Tasks |-> 0]
    /\ authRet = [t \in Tasks |-> None]
    /\ issued = {}
    /\ registry = {}
    /\ coordinator = [t \in Tasks |-> FALSE]
    /\ unload_ok = [t \in Tasks |-> None]

(***************************************************************************)
(* The code between awaits, as operators on a frame c.                     *)
(***************************************************************************)

\* _request, lines 142-155: build the headers from the token as it is now,
\* issue the request and suspend at pc `at`.
SendRequest(c, at, method, endpoint, json, headers, auth) ==
    [c EXCEPT !.pc = at,
              !.req = [method |-> method, endpoint |-> endpoint, json |-> json,
                       headers |-> RequestHeaders(headers, auth, c.token)]]

\* The outermost call returns or raises: its caller holds `r`.
Done(c, r) == [c EXCEPT !.pc = "done", !.result = r]

BoolResult(v) == [NoResult EXCEPT !.kind = "return", !.value = v]

\* raise UpdateFailed(f"<prefix>{err}") : str(err) is the exception's message.
UpdateFailed(prefix, e) ==
    [NoResult EXCEPT !.kind = "UpdateFailed", !.prefix = prefix, !.msg = e.msg]

\* An exception that leaves the call as it is.
Propagated(e) == [NoResult EXCEPT !.kind = "raised", !.type = e.type, !.msg = e.msg]

\* Faulty variant of Snapshot: camera_count is not taken from the list.
SnapshotCountZero(st, cams) ==
    [NoResult EXCEPT !.kind = "return", !.status = st, !.cameras = cams,
                     !.camera_count = 0, !.server_online = TRUE]

\* coordinator.py lines 42-47
Snapshot(st, cams) ==
    [NoResult EXCEPT !.kind = "return", !.status = st, !.cameras = cams,
                     !.camera_count = Len(cams), !.server_online = TRUE]

\* _async_update_data, lines 33-37: entered, get_status() issued.
UpdateData(c) ==
    SendRequest([c EXCEPT !.passes = Bump(c.passes)],
                "get_status", "GET", API_STATUS, NoJson, NoHeaders, TRUE)

\* The calls that run _async_update_data: a scheduled or requested refresh,
\* and the first refresh of async_setup_entry.
CycleOps == {"refresh", "first_refresh"}

\* Faulty variant of SetupAuthenticated: the result of authenticate() is
\* not tested.
SetupAuthenticatedUntested(c, v) ==
    UpdateData([c EXCEPT !.op = "first_refresh", !.coordinator = TRUE,
                         !.cameras = <<>>])

\* async_setup_entry, lines 35-40: authenticate() returned v.
SetupAuthenticated(c, v) ==
    IF v
    THEN UpdateData([c EXCEPT !.op = "first_refresh", !.coordinator = TRUE,
                              !.cameras = <<>>])
    ELSE Done(c, BoolResult(FALSE))

\* async_setup_entry, lines 40-47: the first refresh ended with r.
\* async_config_entry_first_refresh raises ConfigEntryNotReady when
\* _async_update_data raised UpdateFailed.
FirstRefreshDone(c, r) ==
    IF r.kind = "return"
    THEN [c EXCEPT !.registry = @ \cup {entry_id}, !.pc = "forward_platforms"]
    ELSE Done(c, [NoResult EXCEPT !.kind = "ConfigEntryNotReady", !.msg = r.msg])

\* async_unload_entry, lines 58-60: revoke_session() ended with r; its value
\* is dropped, an exception propagates.
UnloadRevoked(c, r) ==
    IF r.kind = "raised" THEN Done(c, r) ELSE Done(c, BoolResult(TRUE))

\* A call of the api or the coordinator ends with r: r goes to the caller,
\* or to async_setup_entry / async_unload_entry when they made the call.
Finish(c, r) ==
    CASE c.op = "setup" ->
            IF r.kind = "return" THEN SetupAuthenticated(c, r.value) ELSE Done(c, r)
      [] c.op = "first_refresh" -> FirstRefreshDone(c, r)
      [] c.op = "unload" -> UnloadRevoked(c, r)
      [] OTHER -> Done(c, r)

\* coordinator.py line 57
FailCommunicating(c, e) ==
    Finish(c, UpdateFailed("Error communicating with PentaVision: ", e))

\* coordinator.py lines 59-60
FailUnexpected(c, e) == Finish(c, UpdateFailed("Unexpected error: ", e))

BoolStr(v) == IF v THEN "True" ELSE "False"

\* Faulty variant of AuthReturn: the coordinator retries whatever
\* authenticate() returned.
AuthReturnRetriesAlways(c, v) ==
    LET c1 == [c EXCEPT !.authRet = BoolStr(v)]
    IN  IF c.op \in CycleOps THEN UpdateData(c1) ELSE Finish(c1, BoolResult(v))

\* authenticate() returns v to its caller: the coordinator's handler
\* (lines 53-57) or a direct caller.
AuthReturn(c, v) ==
    LET c1 == [c EXCEPT !.authRet = BoolStr(v)]
    IN  IF c.op \in CycleOps
        THEN IF v THEN UpdateData(c1) ELSE FailCommunicating(c1, c1.err)
        ELSE Finish(c1, BoolResult(v))

\* Faulty variant of AuthCatches: `except PentaVisionAPIError` only.
AuthCatchesApiErrorOnly(e) == e.type = "PentaVisionAPIError"

\* api.py line 115: `except Exception` catches every Exception.
AuthCatches(e) == TRUE

\* Faulty variant of AuthRaised: a cycle whose handshake request raised
\* goes back to fetching at once.
AuthRaisedRetries(c, e) ==
    IF c.op \in CycleOps THEN UpdateData(c) ELSE AuthReturn(c, FALSE)

\* An exception raised inside authenticate()'s try block.
AuthRaised(c, e) ==
    IF AuthCatches(e)
    THEN AuthReturn(c, FALSE)
    ELSE Finish([c EXCEPT !.authRet = "raised"], Propagated(e))

\* authenticate(), lines 61-68: handshake-init issued.
Authenticate(c) ==
    SendRequest([c EXCEPT !.authCalls = Bump(c.authCalls), !.authRet = None],
                "handshake_init", "POST", API_HANDSHAKE_INIT,
                [NoJson EXCEPT !.api_key_hash = SHA256Hex(api_key)],
                NoHeaders, FALSE)

\* Faulty variant of InitRejected: the nonce is not tested.
InitRejectedNonceUnchecked(data) ==
    \/ "error" \in data.keys
    \/ ~Truthy(Get(data, "challenge"))

\* authenticate(), lines 70-79: is the init response unusable?
InitRejected(data) ==
    \/ "error" \in data.keys
    \/ ~Truthy(Get(data, "challenge"))
    \/ ~Truthy(Get(data, "nonce"))

\* Faulty variant of OnInit: key and message of the HMAC exchanged.
OnInitHmacSwapped(c, r) ==
    LET o == RequestOutcome(r)
        c1 == [c EXCEPT !.resp = r]
    IN  IF ~o.ok THEN AuthRaised(c1, o.err)
        ELSE IF InitRejected(o.data) THEN AuthReturn(c1, FALSE)
        ELSE SendRequest(c1, "handshake_complete", "POST", API_HANDSHAKE_COMPLETE,
                 [NoJson EXCEPT !.nonce = Get(o.data, "nonce"),
                                !.response = HmacSha256Hex(Get(o.data, "challenge"), api_key)],
                 [NoHeaders EXCEPT !.X_API_Key = api_key], FALSE)

\* authenticate(), lines 63-101: the init response arrived.
OnInit(c, r) ==
    LET o == RequestOutcome(r)
        c1 == [c EXCEPT !.resp = r]
    IN  IF ~o.ok THEN AuthRaised(c1, o.err)
        ELSE IF InitRejected(o.data) THEN AuthReturn(c1, FALSE)
        ELSE SendRequest(c1, "handshake_complete", "POST", API_HANDSHAKE_COMPLETE,
                 [NoJson EXCEPT !.nonce = Get(o.data, "nonce"),
                                !.response = HmacSha256Hex(api_key, Get(o.data, "challenge"))],
                 [NoHeaders EXCEPT !.X_API_Key = api_key], FALSE)

\* Faulty variant of StoreToken: a token already held is kept.
StoreTokenKeepsHeld(c, data) ==
    LET c1 == [c EXCEPT !.token = IF Truthy(c.token) THEN c.token
                                  ELSE Get(data, "session_token")]
    IN  AuthReturn(c1, Truthy(c1.token))

\* Faulty variant of StoreToken: tests `is not None` where the code tests
\* truthiness.
StoreTokenNotNone(c, data) ==
    LET c1 == [c EXCEPT !.token = Get(data, "session_token")]
    IN  AuthReturn(c1, c1.token # None)

\* authenticate(), lines 107-113: the token is stored, then tested.
StoreToken(c, data) ==
    LET c1 == [c EXCEPT !.token = Get(data, "session_token")]
    IN  AuthReturn(c1, Truthy(c1.token))

\* authenticate(), lines 88-113: the complete response arrived.
OnComplete(c, r) ==
    LET o == RequestOutcome(r)
        c1 == [c EXCEPT !.resp = r]
    IN  IF ~o.ok THEN AuthRaised(c1, o.err)
        ELSE IF "error" \in o.data.keys THEN AuthReturn(c1, FALSE)
        ELSE StoreToken(c1, o.data)

\* Faulty variant of IsSessionInvalid: an error without a code counts too.
IsSessionInvalidOrNoCode(e) == e.code = "SESSION_INVALID" \/ e.code = None

\* coordinator.py line 51
IsSessionInvalid(e) == e.code = "SESSION_INVALID"

\* Faulty variant of OnUpdateError: every PentaVisionAPIError leads to a
\* re-authentication.
OnUpdateErrorAlwaysReauth(c, e) ==
    IF e.type = "PentaVisionAPIError"
    THEN Authenticate([c EXCEPT !.err = e])
    ELSE FailUnexpected([c EXCEPT !.err = e], e)

\* _async_update_data, lines 49-60: a fetch raised e.
OnUpdateError(c, e) ==
    IF e.type = "PentaVisionAPIError"
    THEN IF IsSessionInvalid(e)
         THEN Authenticate([c EXCEPT !.err = e])
         ELSE FailCommunicating([c EXCEPT !.err = e], e)
    ELSE FailUnexpected([c EXCEPT !.err = e], e)

\* _async_update_data, lines 37-40: get_status() answered.
OnStatus(c, r) ==
    LET o == RequestOutcome(r)
        c1 == [c EXCEPT !.resp = r]
    IN  IF o.ok
        THEN SendRequest([c1 EXCEPT !.status = o.data],
                         "get_cameras", "GET", API_CAMERAS, NoJson, NoHeaders, TRUE)
        ELSE OnUpdateError(c1, o.err)

\* get_cameras, line 176
CamerasOf(data) == GetOr(data, "cameras", <<>>)

\* Faulty variant of OnCameras: the snapshot is built from the list the
\* coordinator held before the fetch.
OnCamerasStale(c, r) ==
    LET o == RequestOutcome(r)
        c1 == [c EXCEPT !.resp = r]
    IN  IF o.ok
        THEN Finish([c1 EXCEPT !.cameras = CamerasOf(o.data)],
                    Snapshot(c1.status, c1.cameras))
        ELSE OnUpdateError(c1, o.err)

\* _async_update_data, lines 40-47: get_cameras() answered.
OnCameras(c, r) ==
    LET o == RequestOutcome(r)
        c1 == [c EXCEPT !.resp = r]
    IN  IF o.ok
        THEN Finish([c1 EXCEPT !.cameras = CamerasOf(o.data)],
                    Snapshot(c1.status, CamerasOf(o.data)))
        ELSE OnUpdateError(c1, o.err)

\* Faulty variant of RevokeSession: the request is sent whatever the token.
RevokeSessionAlwaysSends(c) ==
    SendRequest(c, "revoke", "POST", API_SESSION_REVOKE, NoJson, NoHeaders, TRUE)

\* revoke_session, lines 119-125
RevokeSession(c) ==
    IF ~Truthy(c.token)
    THEN Finish(c, BoolResult(TRUE))
    ELSE SendRequest(c, "revoke", "POST", API_SESSION_REVOKE, NoJson, NoHeaders, TRUE)

\* revoke_session, lines 125-130: the revoke request answered.
OnRevoke(c, r) ==
    LET o == RequestOutcome(r)
        c1 == [c EXCEPT !.resp = r]
    IN  IF o.ok
        THEN Finish([c1 EXCEPT !.token = None], BoolResult(TRUE))
        ELSE IF o.err.type = "PentaVisionAPIError"
        THEN Finish(c1, BoolResult(FALSE))
        ELSE Finish(c1, Propagated(o.err))

\* get_mjpeg_url / get_hls_url, lines 204-206 and 211-213: the URL for
\* `endpoint`, from the token as it is now.
StreamUrl(c, endpoint) ==
    IF Truthy(c.token)
    THEN [endpoint |-> endpoint, param |-> "session_token", value |-> c.token]
    ELSE [endpoint |-> endpoint, param |-> "api_key", value |-> api_key]

\* get_mjpeg_url, lines 201-206
GetMjpegUrl(c, camera_id) ==
    Finish(c, [NoResult EXCEPT !.kind = "return",
                               !.url = StreamUrl(c, API_MJPEG_STREAM(camera_id))])

\* get_hls_url, lines 208-213
GetHlsUrl(c, camera_id) ==
    Finish(c, [NoResult EXCEPT !.kind = "return",
                               !.url = StreamUrl(c, API_HLS_PLAYLIST(camera_id))])

\* The session tokens a response carries.
TokensIn(r) ==
    IF r.kind = "http" /\ "session_token" \in r.body.keys
    THEN {r.body.session_token}
    ELSE {}

\* A frame before a call.
Fresh(c, o) ==
    [c EXCEPT !.pc = "idle", !.op = o, !.req = NoReq, !.resp = NoResp,
              !.status = EmptyBody, !.err = NoErr, !.result = NoResult,
              !.passes = 0, !.authCalls = 0, !.authRet = None,
              !.coordinator = FALSE, !.unload_ok = None]

\* async_setup_entry, lines 23-35: a new PentaVisionAPI (no token), then
\* authenticate().
SetupEntry(c) == Authenticate([c EXCEPT !.token = None])

\* async_unload_entry, lines 54-60: async_unload_platforms returned ok.
UnloadEntry(c, ok) ==
    LET c1 == [c EXCEPT !.unload_ok = BoolStr(ok)]
    IN  IF ok
        THEN RevokeSession([c1 EXCEPT !.registry = @ \ {entry_id}])
        ELSE Done(c1, BoolResult(FALSE))

(***************************************************************************)
(* Actions: one per call and per await resumed.                            *)
(***************************************************************************)

\* The scheduler (or a user) starts a refresh cycle.
StartRefresh(t) ==
    /\ pc[t] = "idle"
    /\ Apply(t, UpdateData(Fresh(Cur(t), "refresh")))

\* A caller (setup) calls authenticate().
StartAuthenticate(t) ==
    /\ pc[t] = "idle"
    /\ Apply(t, Authenticate(Fresh(Cur(t), "authenticate")))

\* A caller (unload) calls revoke_session().
StartRevoke(t) ==
    /\ pc[t] = "idle"
    /\ Apply(t, RevokeSession(Fresh(Cur(t), "revoke_session")))

RecvStatus(t) ==
    /\ pc[t] = "get_status"
    /\ \E r \in ResponsesFor(API_STATUS) : Apply(t, OnStatus(Cur(t), r))

RecvCameras(t) ==
    /\ pc[t] = "get_cameras"
    /\ \E r \in ResponsesFor(API_CAMERAS) : Apply(t, OnCameras(Cur(t), r))

RecvInit(t) ==
    /\ pc[t] = "handshake_init"
    /\ \E r \in ResponsesFor(API_HANDSHAKE_INIT) : Apply(t, OnInit(Cur(t), r))

\* The server answers handshake-complete; a session_token in its answer is
\* from then on a token it has returned.
RecvComplete(t) ==
    /\ pc[t] = "handshake_complete"
    /\ \E r \in ResponsesFor(API_HANDSHAKE_COMPLETE) :
          Apply(t, OnComplete([Cur(t) EXCEPT !.issued = @ \cup TokensIn(r)], r))

RecvRevoke(t) ==
    /\ pc[t] = "revoke"
    /\ \E r \in ResponsesFor(API_SESSION_REVOKE) : Apply(t, OnRevoke(Cur(t), r))

\* A camera entity asks for its MJPEG stream URL (camera.py line 108).
CallMjpegUrl(t) ==
    /\ pc[t] = "idle"
    /\ \E id \in CameraIds : Apply(t, GetMjpegUrl(Fresh(Cur(t), "get_mjpeg_url"), id))

\* A camera entity asks for its HLS stream URL (camera.py line 123).
CallHlsUrl(t) ==
    /\ pc[t] = "idle"
    /\ \E id \in CameraIds : Apply(t, GetHlsUrl(Fresh(Cur(t), "get_hls_url"), id))

\* Home Assistant sets up the config entry, which is not loaded.
StartSetup(t) ==
    /\ pc[t] = "idle"
    /\ entry_id \notin registry
    /\ Apply(t, SetupEntry(Fresh(Cur(t), "setup")))

\* async_setup_entry, lines 47-49: async_forward_entry_setups returned.
RecvForward(t) ==
    /\ pc[t] = "forward_platforms"
    /\ Apply(t, Done(Cur(t), BoolResult(TRUE)))

\* Home Assistant unloads the config entry, which is loaded.
StartUnload(t) ==
    /\ pc[t] = "idle"
    /\ entry_id \in registry
    /\ Apply(t, [Fresh(Cur(t), "unload") EXCEPT !.pc = "unload_platforms"])

RecvUnloadPlatforms(t) ==
    /\ pc[t] = "unload_platforms"
    /\ \E ok \in BOOLEAN : Apply(t, UnloadEntry(Cur(t), ok))

\* The caller has taken the result; the task is free for the next call.
Return(t) ==
    /\ pc[t] = "done"
    /\ Apply(t, Fresh(Cur(t), None))

TaskNext(t) ==
    \/ StartRefresh(t)
    \/ StartAuthenticate(t)
    \/ StartRevoke(t)
    \/ RecvStatus(t)
    \/ RecvCameras(t)
    \/ RecvInit(t)
    \/ RecvComplete(t)
    \/ RecvRevoke(t)
    \/ CallMjpegUrl(t)
    \/ CallHlsUrl(t)
    \/ StartSetup(t)
    \/ RecvForward(t)
    \/ StartUnload(t)
    \/ RecvUnloadPlatforms(t)
    \/ Return(t)

\* Calls made one at a time: every call is awaited before the next is made.
\* (With both tasks interleaved over the full response sets, the graph has
\* about 25 million states.)
Next == TaskNext("tick")

Spec == Init /\ [][Next]_vars

\* Every request is answered, fails or times out, and the event loop then
\* resumes the task awaiting it.
Resume(t) ==
    \/ RecvStatus(t)
    \/ RecvCameras(t)
    \/ RecvInit(t)
    \/ RecvComplete(t)
    \/ RecvRevoke(t)
    \/ RecvForward(t)
    \/ RecvUnloadPlatforms(t)

FairSpec == Spec /\ WF_vars(Resume("tick"))

(***************************************************************************)
(* Overlapping calls: both tasks run, interleaved at the awaits.  The      *)
(* server's answers are drawn from ConcResponses, one of each kind the     *)
(* handlers tell apart, so that the product of the two tasks stays small.  *)
(***************************************************************************)
ConcResponses ==
    { Http(503, [EmptyBody EXCEPT !.keys = {"error", "code"}, !.error = "session expired",
                                  !.code = "SESSION_INVALID"]),
      Http(200, EmptyBody),
      Http(200, [EmptyBody EXCEPT !.keys = {"uptime"}, !.uptime = "u1"]),
      Http(200, [EmptyBody EXCEPT !.keys = {"cameras"}, !.cameras = <<"cam1">>]),
      Http(200, [EmptyBody EXCEPT !.keys = {"challenge", "nonce"}, !.challenge = "c1",
                                  !.nonce = "n1"]),
      Http(200, [EmptyBody EXCEPT !.keys = {"session_token"}, !.session_token = ""]),
      Http(200, [EmptyBody EXCEPT !.keys = {"session_token"}, !.session_token = "T1"]),
      Http(200, [EmptyBody EXCEPT !.keys = {"session_token"}, !.session_token = "T2"]) }

\* The answer task t has just received is one of ConcResponses.
ConcAnswer(t) == resp'[t] \in ConcResponses

ConcTaskNext(t) ==
    \/ StartRefresh(t)
    \/ StartAuthenticate(t)
    \/ StartRevoke(t)
    \/ RecvStatus(t) /\ ConcAnswer(t)
    \/ RecvCameras(t) /\ ConcAnswer(t)
    \/ RecvInit(t) /\ ConcAnswer(t)
    \/ RecvComplete(t) /\ ConcAnswer(t)
    \/ RecvRevoke(t) /\ ConcAnswer(t)
    \/ CallMjpegUrl(t)
    \/ CallHlsUrl(t)
    \/ Return(t)

ConcNext == \E t \in Tasks : ConcTaskNext(t)

ConcSpec == Init /\ [][ConcNext]_vars

(***************************************************************************)
(* Vocabulary of the properties.                                           *)
(***************************************************************************)
InCycle(t) == op[t] = "refresh"
IsHttpOk(r) == r.kind = "http" /\ r.status < 400
IsHttpError(r) == r.kind = "http" /\ r.status >= 400
Fetching(t) == pc[t] \in {"get_status", "get_cameras"}
\* Task t is resumed from the await at pc `at`.
Resumed(t, at) == pc[t] = at /\ pc'[t] # at

\* The cycle of t ended in its second pass, entered after a SESSION_INVALID
\* answer and an authenticate() that returned true, with a cameras answer
\* of status below 400 (the status fetch of that pass succeeded before it).
C5_Scenario(t) ==
    /\ InCycle(t) /\ pc[t] = "done" /\ passes[t] = 2
    /\ err[t].code = "SESSION_INVALID" /\ authRet[t] = "True"
    /\ req[t].endpoint = API_CAMERAS /\ IsHttpOk(resp[t])

\* An init body with an error field, or without a non-empty challenge and
\* nonce.
C6_InitUnusable(b) ==
    \/ "error" \in b.keys
    \/ "challenge" \notin b.keys \/ b.challenge \in {"", None}
    \/ "nonce" \notin b.keys \/ b.nonce \in {"", None}

\* The two endpoints of the handshake.
HandshakeEndpoints == {API_HANDSHAKE_INIT, API_HANDSHAKE_COMPLETE}
\* Task t is suspended inside authenticate().
InHandshake(t) == pc[t] \in {"handshake_init", "handshake_complete"}

\* The endpoints the modelled calls reach with auth=True.
AuthEndpoints == {API_STATUS, API_CAMERAS, API_SESSION_REVOKE}

(***************************************************************************)
(* C1.  In one refresh cycle authenticate() is called at most once and     *)
(* the status/cameras fetch pass runs at most twice.                       *)
(***************************************************************************)
C1_OneRetryPerCycle ==
    \A t \in Tasks : InCycle(t) => authCalls[t] <= 1 /\ passes[t] <= 2

(***************************************************************************)
(* C2.  Every refresh cycle terminates: once started it reaches its        *)
(* result (a snapshot or a refresh-failure).                               *)
(***************************************************************************)
C2_CycleTerminates ==
    \A t \in Tasks : (InCycle(t) /\ pc[t] # "done") ~> (pc[t] = "done")

(***************************************************************************)
(* C3.  When revoke_session() has sent its revoke request and returned,    *)
(* the token is absent, whatever the request ended in.                     *)
(***************************************************************************)
C3_RevokeAlwaysClears ==
    \A t \in Tasks :
        (op[t] = "revoke_session" /\ pc[t] = "done"
            /\ req[t].endpoint = API_SESSION_REVOKE) => token = None

(***************************************************************************)
(* C4.  When a status or cameras request that carried a session token is   *)
(* answered with code SESSION_INVALID, the stored token is absent once the *)
(* answer has been handled: the client is Unauthenticated.                 *)
(***************************************************************************)
C4_SessionInvalidClearsToken ==
    [][\A t \in Tasks :
        (/\ Fetching(t) /\ pc'[t] # pc[t]
         /\ req[t].headers.X_Session_Token # None
         /\ IsHttpError(resp'[t])
         /\ Get(resp'[t].body, "code") = "SESSION_INVALID")
            => token' = None]_vars
(***************************************************************************)
(* C5.  A cycle whose first pass was answered SESSION_INVALID, whose       *)
(* authenticate() returned true and whose second pass fetched status and   *)
(* cameras successfully returns the camera list of the second pass, and    *)
(* has called authenticate() exactly once.                                 *)
(***************************************************************************)
C5_RetrySucceeds ==
    \A t \in Tasks :
        C5_Scenario(t) =>
            /\ result[t].kind = "return"
            /\ result[t].server_online
            /\ result[t].cameras =
                  (IF "cameras" \in resp[t].body.keys THEN resp[t].body.cameras ELSE <<>>)
            /\ authCalls[t] = 1

C5_Witness ==
    \E t \in Tasks : C5_Scenario(t) /\ result[t].cameras = <<"cam1", "cam2">>

(***************************************************************************)
(* C6.  When the handshake-init response (status below 400) has an error   *)
(* field, or no or an empty challenge or nonce, authenticate() returns     *)
(* false, raises nothing, sends no further request, and a token that was   *)
(* absent stays absent.                                                    *)
(***************************************************************************)
C6_InitRejected ==
    [][\A t \in Tasks :
        (/\ Resumed(t, "handshake_init")
         /\ IsHttpOk(resp'[t])
         /\ C6_InitUnusable(resp'[t].body))
            => /\ authRet'[t] = "False"
               /\ result'[t].kind # "raised"
               /\ req'[t] = req[t]
               /\ (token = None => token' = None)]_vars

C6_Witness ==
    \E t \in Tasks :
        /\ op[t] = "authenticate" /\ pc[t] = "done"
        /\ req[t].endpoint = API_HANDSHAKE_INIT
        /\ IsHttpOk(resp[t])
        /\ resp[t].body.keys = {"challenge"} /\ resp[t].body.challenge = "c1"
        /\ authRet[t] = "False" /\ result[t].kind = "return" /\ ~result[t].value
        /\ token = None

(***************************************************************************)
(* C7.  When the handshake-complete response (status below 400) has an     *)
(* error field or no or an empty session token, authenticate() returns     *)
(* false; it returns true only on a complete response with a non-empty     *)
(* session token and no error field, and the stored token is then that     *)
(* value.                                                                  *)
(***************************************************************************)
C7_CompleteDecides ==
    [][\A t \in Tasks :
        Resumed(t, "handshake_complete") =>
            LET r == resp'[t]
                b == r.body
            IN  /\ (IsHttpOk(r) /\ ("error" \in b.keys \/ "session_token" \notin b.keys
                                    \/ b.session_token \in {"", None}))
                        => authRet'[t] = "False"
                /\ authRet'[t] = "True"
                        => /\ IsHttpOk(r)
                           /\ "error" \notin b.keys
                           /\ "session_token" \in b.keys
                           /\ b.session_token \in Tokens
                           /\ token' = b.session_token]_vars

C7_Witness ==
    \E t \in Tasks :
        /\ op[t] = "authenticate" /\ pc[t] = "done"
        /\ req[t].endpoint = API_HANDSHAKE_COMPLETE
        /\ IsHttpOk(resp[t])
        /\ resp[t].body.keys = {"session_token"} /\ resp[t].body.session_token = ""
        /\ authRet[t] = "False"

(***************************************************************************)
(* C8.  While the stored token is a token T of a successful handshake,     *)
(* every request sent to an authenticated endpoint (status, cameras,       *)
(* revoke) carries X-Session-Token = T; and the stored token changes only  *)
(* when authenticate() handles a complete response or revoke_session()     *)
(* handles its answer (or when async_setup_entry constructs a new client). *)
(***************************************************************************)
C8_TokenHeader ==
    [][/\ \A t \in Tasks :
            (req'[t] # req[t] /\ req'[t].endpoint \in AuthEndpoints /\ token' \in Tokens)
                => req'[t].headers.X_Session_Token = token'
       /\ token' # token
            => \E t \in Tasks : \/ /\ pc[t] \in {"handshake_complete", "revoke"}
                                   /\ pc'[t] # pc[t]
                                \/ /\ pc[t] = "idle" /\ op'[t] = "setup"
                                   /\ token' = None]_vars

C8_Witness ==
    \E t \in Tasks :
        /\ InCycle(t) /\ pc[t] = "get_cameras" /\ authRet[t] = "True"
        /\ token = "T2" /\ req[t].headers.X_Session_Token = "T2"

(***************************************************************************)
(* C9.  When a handshake request ends in anything but a response with      *)
(* status below 400 (connection error, timeout, status >= 400, undecodable *)
(* body), authenticate() returns false and no exception leaves it.         *)
(***************************************************************************)
C9_AuthNeverRaises ==
    [][\A t \in Tasks :
        (/\ pc[t] \in {"handshake_init", "handshake_complete"}
         /\ pc'[t] # pc[t]
         /\ ~IsHttpOk(resp'[t]))
            => authRet'[t] = "False" /\ result'[t].kind # "raised"]_vars

C9_Witness ==
    \E t \in Tasks :
        /\ op[t] = "authenticate" /\ pc[t] = "done"
        /\ req[t].endpoint = API_HANDSHAKE_COMPLETE
        /\ resp[t].kind = "timeout"
        /\ authRet[t] = "False" /\ result[t].kind = "return" /\ ~result[t].value

(***************************************************************************)
(* C10.  When a status or cameras fetch of a cycle fails with anything but *)
(* an HTTP error of code SESSION_INVALID, the cycle ends at once in an     *)
(* UpdateFailed carrying the message of that error: no authenticate()      *)
(* call, no further request, no further pass.                              *)
(***************************************************************************)
C10_OtherErrorsTerminal ==
    [][\A t \in Tasks :
        (/\ InCycle(t) /\ Fetching(t) /\ pc'[t] # pc[t]
         /\ ~IsHttpOk(resp'[t])
         /\ ~(IsHttpError(resp'[t]) /\ Get(resp'[t].body, "code") = "SESSION_INVALID"))
            => /\ pc'[t] = "done"
               /\ result'[t].kind = "UpdateFailed"
               /\ result'[t].msg = RequestOutcome(resp'[t]).err.msg
               /\ authCalls'[t] = authCalls[t]
               /\ passes'[t] = passes[t]
               /\ req'[t] = req[t]]_vars

C10_Witness ==
    \E t \in Tasks :
        /\ InCycle(t) /\ pc[t] = "done"
        /\ req[t].endpoint = API_CAMERAS
        /\ IsHttpError(resp[t]) /\ Get(resp[t].body, "code") = "FORBIDDEN"
        /\ result[t].kind = "UpdateFailed" /\ result[t].msg = "forbidden"
        /\ authCalls[t] = 0
(***************************************************************************)
(* C11.  When an authenticate() called by a refresh cycle returns false,   *)
(* the cycle ends in that step in an UpdateFailed: no status or cameras    *)
(* request is sent and no further pass starts.                             *)
(***************************************************************************)
C11_FailedReauthEndsCycle ==
    [][\A t \in Tasks :
        (/\ InCycle(t)
         /\ pc[t] \in {"handshake_init", "handshake_complete"}
         /\ authRet'[t] = "False")
            => /\ pc'[t] = "done"
               /\ result'[t].kind = "UpdateFailed"
               /\ req'[t] = req[t]
               /\ passes'[t] = passes[t]]_vars

C11_Witness ==
    \E t \in Tasks :
        /\ InCycle(t) /\ pc[t] = "done"
        /\ err[t].code = "SESSION_INVALID" /\ authRet[t] = "False"
        /\ authCalls[t] = 1 /\ passes[t] = 1
        /\ req[t].endpoint = API_HANDSHAKE_COMPLETE
        /\ result[t].kind = "UpdateFailed"

(***************************************************************************)
(* C12.  The raw api_key appears in what the client produces only as the   *)
(* X-API-Key header of a handshake-complete request: in no other header,   *)
(* in no body, in no request to another endpoint and in no URL.            *)
(***************************************************************************)
C12_RawKeyOnlyInCompleteHeader ==
    \A t \in Tasks :
        /\ req[t].headers.X_API_Key = api_key
                => req[t].endpoint = API_HANDSHAKE_COMPLETE
        /\ req[t].headers.X_Session_Token # api_key
        /\ req[t].json.api_key_hash # api_key
        /\ req[t].json.nonce # api_key
        /\ req[t].json.response # api_key
        /\ result[t].url.value # api_key
(***************************************************************************)
(* C13.  A status or cameras request that runs into the 30 s timeout       *)
(* leaves _request as a PentaVisionAPIError without a code, like a         *)
(* connection failure.                                                     *)
(***************************************************************************)
C13_TimeoutIsConnectionError ==
    \A t \in Tasks :
        (/\ InCycle(t) /\ pc[t] = "done"
         /\ req[t].endpoint \in {API_STATUS, API_CAMERAS}
         /\ resp[t].kind = "timeout")
            => err[t].type = "PentaVisionAPIError" /\ err[t].code = None

C15_RequestNeverReauthenticates ==
    [][\A t \in Tasks :
        /\ (Fetching(t) /\ pc'[t] # pc[t]) =>
                /\ token' = token
                /\ (authCalls'[t] # authCalls[t]
                        \/ req'[t].endpoint = API_HANDSHAKE_INIT
                        \/ pc'[t] = "handshake_init")
                    => /\ IsHttpError(resp'[t])
                       /\ Get(resp'[t].body, "code") = "SESSION_INVALID"
                       /\ authCalls'[t] = Bump(authCalls[t])
        /\ Resumed(t, "revoke") =>
                /\ req'[t] = req[t]
                /\ pc'[t] = "done"
        /\ (InCycle(t) /\ InCycle(t)' /\ authCalls'[t] # authCalls[t])
                => Fetching(t)]_vars

C15_Witness ==
    \E t \in Tasks :
        /\ InCycle(t) /\ pc[t] = "handshake_init"
        /\ token = "T1" /\ authCalls[t] = 1
        /\ IsHttpError(resp[t]) /\ Get(resp[t].body, "code") = "SESSION_INVALID"
(***************************************************************************)
(* C16.  While a cycle is inside authenticate() its request in flight is   *)
(* a handshake request, and the step that leaves authenticate() sends a    *)
(* status or cameras request only if authenticate() returned True; that    *)
(* request is then the status request of a new pass, sent with the token   *)
(* just stored.                                                            *)
(***************************************************************************)
C16_NoFetchDuringReauth ==
    [][\A t \in Tasks :
        (InCycle(t) /\ InHandshake(t)) =>
            /\ req[t].endpoint \in HandshakeEndpoints
            /\ req'[t].endpoint \in {API_STATUS, API_CAMERAS} =>
                  /\ pc[t] = "handshake_complete"
                  /\ authRet'[t] = "True"
                  /\ pc'[t] = "get_status"
                  /\ req'[t].endpoint = API_STATUS
                  /\ req'[t].headers.X_Session_Token = token'
            /\ InHandshake(t)' => authRet'[t] = None]_vars

C16_Witness ==
    \E t \in Tasks :
        /\ InCycle(t) /\ pc[t] = "get_status" /\ passes[t] = 2
        /\ authCalls[t] = 1 /\ authRet[t] = "True"
        /\ req[t].endpoint = API_STATUS
        /\ req[t].headers.X_Session_Token = "T2"

(***************************************************************************)
(* C17.  revoke_session() called while no token is held (None or empty)    *)
(* returns True at once: no request is sent, the token and the             *)
(* coordinator's camera list are as before.                                *)
(***************************************************************************)
C17_RevokeWithoutToken ==
    [][\A t \in Tasks :
        (pc[t] = "idle" /\ op'[t] = "revoke_session" /\ ~Truthy(token)) =>
            /\ pc'[t] = "done"
            /\ result'[t] = BoolResult(TRUE)
            /\ req'[t] = NoReq
            /\ token' = token
            /\ cameras' = cameras]_vars

C17_Witness ==
    \E t \in Tasks :
        /\ op[t] = "revoke_session" /\ pc[t] = "done"
        /\ token = None /\ req[t] = NoReq /\ resp[t] = NoResp
        /\ result[t] = BoolResult(TRUE)

(***************************************************************************)
(* C18.  A request to handshake-init or handshake-complete never carries   *)
(* an X-Session-Token header, whatever token the client holds.             *)
(***************************************************************************)
C18_HandshakeWithoutSessionHeader ==
    \A t \in Tasks :
        req[t].endpoint \in HandshakeEndpoints
            => req[t].headers.X_Session_Token = None

C18_Witness ==
    \E t \in Tasks :
        /\ pc[t] = "handshake_complete" /\ token = "T1"
        /\ req[t].endpoint = API_HANDSHAKE_COMPLETE
        /\ req[t].headers.X_Session_Token = None

(***************************************************************************)
(* C19.  A handshake-complete request is sent only in the step that        *)
(* receives an init response, and carries that response's nonce and the    *)
(* HMAC-SHA256, keyed with api_key, of that response's challenge; the      *)
(* step that receives the complete response sends no further complete      *)
(* request.                                                                *)
(***************************************************************************)
C19_ChallengeUsedOnce ==
    [][\A t \in Tasks :
        (/\ pc'[t] = "handshake_complete"
         /\ <<pc[t], req[t], resp[t]>> # <<pc'[t], req'[t], resp'[t]>>) =>
            LET b == resp'[t].body
            IN  /\ pc[t] = "handshake_init"
                /\ IsHttpOk(resp'[t])
                /\ {"challenge", "nonce"} \subseteq b.keys
                /\ req'[t].endpoint = API_HANDSHAKE_COMPLETE
                /\ req'[t].json.nonce = b.nonce
                /\ req'[t].json.response = HmacSha256Hex(api_key, b.challenge)]_vars

C19_Witness ==
    \E t \in Tasks :
        /\ pc[t] = "handshake_complete" /\ authCalls[t] = 2
        /\ resp[t].body.nonce = "n2" /\ resp[t].body.challenge = "c1"
        /\ req[t].json.nonce = "n2"
        /\ req[t].json.response = HmacSha256Hex(api_key, "c1")

(***************************************************************************)
(* C20.  A cameras answer of status below 400 ends the cycle with a        *)
(* snapshot, and every snapshot a cycle returns has: status, the body of   *)
(* the last status answer; cameras, the list of the cameras answer (empty  *)
(* without one), which is also coordinator.cameras; camera_count, the      *)
(* length of that list; server_online, True.                               *)
(***************************************************************************)
C20_SnapshotPopulated ==
    [][\A t \in Tasks :
        (InCycle(t) /\ Resumed(t, "get_cameras")) =>
            LET b == resp'[t].body
                l == IF "cameras" \in b.keys THEN b.cameras ELSE <<>>
            IN  /\ IsHttpOk(resp'[t]) <=> result'[t].kind = "return"
                /\ result'[t].kind = "return" =>
                      /\ pc'[t] = "done"
                      /\ IsHttpOk(resp[t]) /\ req[t].endpoint = API_CAMERAS
                      /\ result'[t].status = resp[t].body
                      /\ result'[t].status \in StatusBodies
                      /\ result'[t].cameras = l
                      /\ cameras' = l
                      /\ result'[t].camera_count = Len(l)
                      /\ result'[t].server_online = TRUE]_vars

C20_Witness ==
    \E t \in Tasks :
        /\ InCycle(t) /\ pc[t] = "done" /\ result[t].kind = "return"
        /\ result[t].status.uptime = "u2"
        /\ result[t].cameras = <<"cam1", "cam2">> /\ cameras = <<"cam1", "cam2">>
        /\ result[t].camera_count = 2 /\ result[t].server_online
(***************************************************************************)
(* C21.  With the two tasks interleaved at every await: a session token    *)
(* sent in an X-Session-Token header, or put in a stream URL as            *)
(* session_token, is a non-empty token that a handshake-complete answer    *)
(* has returned.                                                           *)
(***************************************************************************)
C21_SentTokensWereIssued ==
    \A t \in Tasks :
        /\ req[t].headers.X_Session_Token # None =>
              /\ req[t].headers.X_Session_Token \in issued
              /\ req[t].headers.X_Session_Token \in Tokens
        /\ result[t].url.param = "session_token" =>
              /\ result[t].url.value \in issued
              /\ result[t].url.value \in Tokens

\* One task's fetch is in flight with T1 while the other task's failed
\* handshake has left the empty string stored.
C21_Witness ==
    \E t, u \in Tasks :
        /\ t # u
        /\ Fetching(t) /\ req[t].headers.X_Session_Token = "T1"
        /\ op[u] = "authenticate" /\ pc[u] = "done" /\ authRet[u] = "False"
        /\ token = ""
(***************************************************************************)
(* C22.  Cycles are not serialized: two cycles that both met               *)
(* SESSION_INVALID can both be inside authenticate() (the witness).  Each  *)
(* handshake-complete answer that makes authenticate() return True         *)
(* replaces the stored token by its own, whatever was stored and whatever  *)
(* the other task is doing, and the step sends no revoke request: the      *)
(* answer processed last decides the token, the token replaced is dropped. *)
(***************************************************************************)
C22_LastCompleteWins ==
    [][\A t \in Tasks :
        (/\ InCycle(t) /\ Resumed(t, "handshake_complete")
         /\ authRet'[t] = "True") =>
            /\ token' = resp'[t].body.session_token
            /\ token' \in Tokens
            /\ req'[t].endpoint = API_STATUS
            /\ \A u \in Tasks \ {t} : req'[u] = req[u] /\ pc'[u] = pc[u]]_vars

\* Both cycles met SESSION_INVALID with T1 and are waiting for their
\* handshake-complete answers.
C22_Witness ==
    /\ \A t \in Tasks :
          /\ InCycle(t) /\ pc[t] = "handshake_complete"
          /\ err[t].code = "SESSION_INVALID" /\ authCalls[t] = 1
    /\ token = "T1"
(***************************************************************************)
(* C23.  An authenticate() call that returns False while the client holds  *)
(* a token from an earlier handshake leaves that token stored.             *)
(***************************************************************************)
C23_FailedAuthKeepsToken ==
    [][\A t \in Tasks :
        (InHandshake(t) /\ Truthy(token) /\ authRet'[t] = "False")
            => token' = token]_vars
(***************************************************************************)
(* C24.  `authenticated` is true only while the stored token is a          *)
(* non-empty token that a handshake-complete answer has returned.          *)
(***************************************************************************)
C24_AuthenticatedMeansToken ==
    authenticated => token \in Tokens /\ token \in issued
(***************************************************************************)
(* C25.  With the two tasks interleaved: a non-empty token that the        *)
(* answer of a revoke request clears is the token that request carried.    *)
(***************************************************************************)
C25_RevokeClearsOwnToken ==
    [][\A t \in Tasks :
        (Resumed(t, "revoke") /\ Truthy(token) /\ token' # token)
            => token = req[t].headers.X_Session_Token]_vars
(***************************************************************************)
(* C26.  Setup: the coordinator is created, and the first refresh begun,   *)
(* only in the step in which authenticate() returned True; the entry is    *)
(* registered only in the step in which that first refresh returns its     *)
(* snapshot; when authenticate() returns False, setup returns False in     *)
(* that step with no coordinator, no status or cameras request and no      *)
(* registry entry.  Unload: the entry is removed and revoke_session()      *)
(* called only when async_unload_platforms returned True; otherwise        *)
(* unload returns False with the registry and the token untouched.         *)
(***************************************************************************)
C26_SetupAndUnloadOrder ==
    [][\A t \in Tasks :
        /\ (op[t] = "setup" /\ pc'[t] # pc[t]) =>
              /\ (coordinator'[t] \/ op'[t] = "first_refresh"
                      \/ req'[t].endpoint \in {API_STATUS, API_CAMERAS}) =>
                    /\ pc[t] = "handshake_complete"
                    /\ authRet'[t] = "True" /\ Truthy(token')
                    /\ coordinator'[t] /\ op'[t] = "first_refresh"
                    /\ req'[t].endpoint = API_STATUS
              /\ authRet'[t] = "False" =>
                    /\ pc'[t] = "done" /\ result'[t] = BoolResult(FALSE)
                    /\ ~coordinator'[t]
                    /\ req'[t].endpoint \in HandshakeEndpoints
                    /\ passes'[t] = 0
              /\ registry' = registry /\ entry_id \notin registry
        /\ (entry_id \in registry' /\ entry_id \notin registry) =>
              \E u \in Tasks :
                  /\ op[u] = "first_refresh" /\ pc[u] = "get_cameras"
                  /\ coordinator[u] /\ IsHttpOk(resp'[u])
                  /\ pc'[u] = "forward_platforms"
        /\ (op[t] = "unload" /\ pc'[t] # pc[t]) =>
              /\ (registry' # registry \/ req'[t] \notin {req[t], NoReq}) =>
                    /\ pc[t] = "unload_platforms" /\ unload_ok'[t] = "True"
                    /\ registry' = registry \ {entry_id}
              /\ unload_ok'[t] = "True" => entry_id \notin registry'
              /\ (pc[t] = "unload_platforms" /\ unload_ok'[t] = "True" /\ Truthy(token))
                    => pc'[t] = "revoke" /\ req'[t].endpoint = API_SESSION_REVOKE
              /\ unload_ok'[t] = "False" =>
                    /\ pc'[t] = "done" /\ result'[t] = BoolResult(FALSE)
                    /\ registry' = registry /\ req'[t] = NoReq
                    /\ token' = token]_vars

\* Setup has returned True: the entry is registered, after a first
\* refresh that re-authenticated once (the second authenticate() call of
\* the setup).
C26_Witness ==
    \E t \in Tasks :
        /\ op[t] = "first_refresh" /\ pc[t] = "done"
        /\ result[t] = BoolResult(TRUE)
        /\ coordinator[t] /\ entry_id \in registry
        /\ passes[t] = 2 /\ authCalls[t] = 2 /\ Truthy(token)

====
